---- MODULE Spec2Model ----
(***************************************************************************)
(* A model of the crm-bot core: the contact DAO (create / delete / update  *)
(* / search, src/api/contacts/dao.py) run by concurrent sessions against a *)
(* relational store, and the two pure text algorithms of the bot helper    *)
(* (log windowing and activity bucketing, src/bot/helper.py).              *)
(*                                                                         *)
(* Four groups of variables, one per component; every specification       *)
(* below moves one group and leaves the others at their initial value.     *)
(***************************************************************************)
EXTENDS Integers, Sequences, FiniteSets, TLC

VARIABLES
    \* ---- the contact store and the sessions working on it
    rows,        \* committed rows of table contacts: set of [id, name, telegram]
    nextId,      \* the next fresh primary key (a uuid in the code)
    calls,       \* number of DAO calls issued so far (caps the run)
    pc,          \* pc[s]: where session s stands inside its DAO call
    arg,         \* arg[s]: the call's arguments
    found,       \* found[s]: the m_contact the call has loaded
    pending,     \* pending[s]: the session's uncommitted unit of work
    result,      \* result[s]: what the call returned or raised
    \* ---- DAOContact.search
    m_contacts,  \* the list get_all() returned
    query,       \* search's name argument
    name_count,  \* search's name_count argument
    returned,    \* the list search returned
    spc,         \* "off" | "call" | "done"
    \* ---- LogHelper.convert_logs_to_str
    result_list, \* the rendered lines, each given by its length
    p1, p2,      \* the binary search's bounds (0-based, as in the code)
    text,        \* the lines whose newline-join the variable text holds
    out,         \* length of the string returned (-1: not yet)
    wpc,         \* "off" | "search" | "done"
    \* ---- StatsHelper.get_days_count_since_last_interaction
    records,            \* the (name, day_count) pairs of the response
    contacts_with_days, \* the sorted list
    bresult,            \* the list of output lines built so far
    bi,                 \* number of records already rendered
    bpc                 \* "off" | "sort" | "loop" | "done"

storeVars  == <<rows, nextId, calls, pc, arg, found, pending, result>>
searchVars == <<m_contacts, query, name_count, returned, spc>>
windowVars == <<result_list, p1, p2, text, out, wpc>>
bucketVars == <<records, contacts_with_days, bresult, bi, bpc>>
vars == <<storeVars, searchVars, windowVars, bucketVars>>

-----------------------------------------------------------------------------
(* Bounds of the model *)

NumSessions == 2   \* concurrent sessions (requests)
MaxIds      == 2   \* primary keys ever handed out
MaxCalls    == 3   \* DAO calls issued in one run

-----------------------------------------------------------------------------
(* The contact store *)

Sessions  == 1..NumSessions
Ids       == 1..MaxIds
Names     == {"Ann", "Bob"}
Telegrams == {"@t"}
Unset     == "<unset>"     \* a schema field the caller did not supply
Null      == "<null>"      \* SQL NULL
NoContact == [id |-> 0, name |-> Null, telegram |-> Null]   \* Python None

NoArg     == [op |-> "none", id |-> 0, name |-> Unset, telegram |-> Unset]
NoPending == [kind |-> "none", row |-> NoContact]
NoResult  == [kind |-> "none", contact |-> NoContact]
Outcome(k, c) == [kind |-> k, contact |-> c]

\* DAO.get_one_or_none_by_id: the committed row with this id, or None
get_one_or_none_by_id(db, id) ==
    IF \E r \in db : r.id = id THEN CHOOSE r \in db : r.id = id ELSE NoContact

\* DAO.get_one_or_none_with_filter(name=...): a committed row with this name, or None
get_one_or_none_with_filter(db, name) ==
    IF \E r \in db : r.name = name THEN CHOOSE r \in db : r.name = name ELSE NoContact

\* Python truthiness of an optional string field
Truthy(v) == v \notin {Unset, ""}

\* the table declared without its unique constraint
UniqueViolationDropped(db, id, n) == FALSE

\* contacts.name UNIQUE: writing name n into row id collides with a committed row
UniqueViolation(db, id, n) == \E r \in db : r.name = n /\ r.id # id

\* A write of name n waits while another session holds an uncommitted insert
\* of the same name (the index entry is locked until that transaction ends).
WriteBlocked(s, n) ==
    \E t \in Sessions \ {s} : pending[t].kind = "insert" /\ pending[t].row.name = n

InFlightCreates == Cardinality({s \in Sessions : pc[s] = "create_flush"})

\* the other components do not move while the store does
StoreOnly == UNCHANGED <<searchVars, windowVars, bucketVars>>

\* ---------------------------------------------------------------- create

BeginCreate(s) ==
    /\ pc[s] = "idle"
    /\ calls < MaxCalls
    /\ nextId + InFlightCreates <= MaxIds
    /\ \E n \in Names :   \* the bot posts {'name': name}; the other fields stay unset
          arg' = [arg EXCEPT ![s] = [op |-> "create", id |-> 0, name |-> n, telegram |-> Unset]]
    /\ pc' = [pc EXCEPT ![s] = "create_flush"]
    /\ calls' = calls + 1
    /\ UNCHANGED <<rows, nextId, found, pending, result>>
    /\ StoreOnly

\* m_contact = MContact(**model_dump(exclude_unset=True)); db.add; await db.flush()
CreateFlush(s) ==
    /\ pc[s] = "create_flush"
    /\ ~WriteBlocked(s, arg[s].name)
    /\ IF UniqueViolation(rows, nextId, arg[s].name)
       THEN \* IntegrityError: the INSERT is refused, the transaction is aborted
            /\ pending' = [pending EXCEPT ![s] = [kind |-> "aborted", row |-> NoContact]]
            /\ pc' = [pc EXCEPT ![s] = "create_except"]
            /\ UNCHANGED <<nextId, found>>
       ELSE LET m_contact == [id |-> nextId, name |-> arg[s].name,
                              telegram |-> IF arg[s].telegram = Unset THEN Null
                                           ELSE arg[s].telegram]
            IN /\ pending' = [pending EXCEPT ![s] = [kind |-> "insert", row |-> m_contact]]
               /\ found' = [found EXCEPT ![s] = m_contact]
               /\ nextId' = nextId + 1
               /\ pc' = [pc EXCEPT ![s] = "create_commit"]
    /\ UNCHANGED <<rows, calls, arg, result>>
    /\ StoreOnly

\* the except branch raising without the rollback
CreateRollbackSkipped(s) ==
    /\ pc[s] = "create_except"
    /\ pc' = [pc EXCEPT ![s] = "create_raise"]
    /\ UNCHANGED <<rows, nextId, calls, arg, found, pending, result>>
    /\ StoreOnly

\* except IntegrityError: await self.db.rollback()
CreateRollback(s) ==
    /\ pc[s] = "create_except"
    /\ pending' = [pending EXCEPT ![s] = NoPending]
    /\ pc' = [pc EXCEPT ![s] = "create_raise"]
    /\ UNCHANGED <<rows, nextId, calls, arg, found, result>>
    /\ StoreOnly

\* the except branch swallowing the error and returning m_contact
CreateRaiseSwallowed(s) ==
    /\ pc[s] = "create_raise"
    /\ result' = [result EXCEPT ![s] = Outcome("ok", NoContact)]
    /\ pc' = [pc EXCEPT ![s] = "done"]
    /\ UNCHANGED <<rows, nextId, calls, arg, found, pending>>
    /\ StoreOnly

\* raise HTTPException(status_code=409, ...)
CreateRaise(s) ==
    /\ pc[s] = "create_raise"
    /\ result' = [result EXCEPT ![s] = Outcome("AlreadyExists", NoContact)]
    /\ pc' = [pc EXCEPT ![s] = "done"]
    /\ UNCHANGED <<rows, nextId, calls, arg, found, pending>>
    /\ StoreOnly

\* else: await self.db.commit(); return m_contact
CreateCommit(s) ==
    /\ pc[s] = "create_commit"
    /\ rows' = rows \cup {pending[s].row}
    /\ pending' = [pending EXCEPT ![s] = NoPending]
    /\ result' = [result EXCEPT ![s] = Outcome("ok", found[s])]
    /\ pc' = [pc EXCEPT ![s] = "done"]
    /\ UNCHANGED <<nextId, calls, arg, found>>
    /\ StoreOnly

\* ---------------------------------------------------------------- delete

BeginDelete(s) ==
    /\ pc[s] = "idle"
    /\ calls < MaxCalls
    /\ \E i \in Ids :
          arg' = [arg EXCEPT ![s] = [op |-> "delete", id |-> i, name |-> Unset, telegram |-> Unset]]
    /\ pc' = [pc EXCEPT ![s] = "delete_get"]
    /\ calls' = calls + 1
    /\ UNCHANGED <<rows, nextId, found, pending, result>>
    /\ StoreOnly

\* delete without the "if not m_contact" guard: db.delete(None) raises
DeleteGetUnguarded(s) ==
    /\ pc[s] = "delete_get"
    /\ LET m_contact == get_one_or_none_by_id(rows, arg[s].id)
       IN IF m_contact = NoContact
          THEN /\ result' = [result EXCEPT ![s] = Outcome("UnmappedInstanceError", NoContact)]
               /\ pc' = [pc EXCEPT ![s] = "done"]
               /\ UNCHANGED found
          ELSE /\ found' = [found EXCEPT ![s] = m_contact]
               /\ pc' = [pc EXCEPT ![s] = "delete_commit"]
               /\ UNCHANGED result
    /\ UNCHANGED <<rows, nextId, calls, arg, pending>>
    /\ StoreOnly

\* m_contact = await self.get_one_or_none_by_id(id); if not m_contact: return None
DeleteGet(s) ==
    /\ pc[s] = "delete_get"
    /\ LET m_contact == get_one_or_none_by_id(rows, arg[s].id)
       IN IF m_contact = NoContact
          THEN /\ result' = [result EXCEPT ![s] = Outcome("None", NoContact)]
               /\ pc' = [pc EXCEPT ![s] = "done"]
               /\ UNCHANGED found
          ELSE /\ found' = [found EXCEPT ![s] = m_contact]
               /\ pc' = [pc EXCEPT ![s] = "delete_commit"]
               /\ UNCHANGED result
    /\ UNCHANGED <<rows, nextId, calls, arg, pending>>
    /\ StoreOnly

\* await self.db.delete(m_contact); await self.db.commit(); return m_contact
\* (a DELETE that matches no row any more only warns)
DeleteCommit(s) ==
    /\ pc[s] = "delete_commit"
    /\ rows' = {r \in rows : r.id # found[s].id}
    /\ result' = [result EXCEPT ![s] = Outcome("ok", found[s])]
    /\ pc' = [pc EXCEPT ![s] = "done"]
    /\ UNCHANGED <<nextId, calls, arg, found, pending>>
    /\ StoreOnly

\* ---------------------------------------------------------------- update

BeginUpdate(s) ==
    /\ pc[s] = "idle"
    /\ calls < MaxCalls
    /\ \E i \in Ids, n \in Names \cup {Unset}, t \in Telegrams \cup {Unset} :
          arg' = [arg EXCEPT ![s] = [op |-> "update", id |-> i, name |-> n, telegram |-> t]]
    /\ pc' = [pc EXCEPT ![s] = "update_check"]
    /\ calls' = calls + 1
    /\ UNCHANGED <<rows, nextId, found, pending, result>>
    /\ StoreOnly

\* if update_contact.name:
\*     if await self.get_one_or_none_with_filter(name=update_contact.name): raise 409
UpdateCheck(s) ==
    /\ pc[s] = "update_check"
    /\ IF Truthy(arg[s].name) /\ get_one_or_none_with_filter(rows, arg[s].name) # NoContact
       THEN /\ result' = [result EXCEPT ![s] = Outcome("AlreadyExists", NoContact)]
            /\ pc' = [pc EXCEPT ![s] = "done"]
       ELSE /\ pc' = [pc EXCEPT ![s] = "update_get"]
            /\ UNCHANGED result
    /\ UNCHANGED <<rows, nextId, calls, arg, found, pending>>
    /\ StoreOnly

\* m_contact = await self.get_one_by_id(id)      (raises NotFound)
UpdateGet(s) ==
    /\ pc[s] = "update_get"
    /\ LET m_contact == get_one_or_none_by_id(rows, arg[s].id)
       IN IF m_contact = NoContact
          THEN /\ result' = [result EXCEPT ![s] = Outcome("NotFound", NoContact)]
               /\ pc' = [pc EXCEPT ![s] = "done"]
               /\ UNCHANGED found
          ELSE /\ found' = [found EXCEPT ![s] = m_contact]
               /\ pc' = [pc EXCEPT ![s] = "update_commit"]
               /\ UNCHANGED result
    /\ UNCHANGED <<rows, nextId, calls, arg, pending>>
    /\ StoreOnly

\* for key, val in update_contact.model_dump(exclude_unset=True).items(): setattr(...)
SetAttrs(m_contact, update_contact) ==
    [m_contact EXCEPT
        !.name     = IF update_contact.name = Unset THEN @ ELSE update_contact.name,
        !.telegram = IF update_contact.telegram = Unset THEN @ ELSE update_contact.telegram]

\* await self.db.commit(); return m_contact
\* The commit flushes UPDATE contacts SET <changed columns> WHERE id = ...; nothing
\* is sent when no attribute changed.  No except clause surrounds it.
\* The UPDATE and the COMMIT that follows it are one step: a statement of another
\* session that touches the same row or name in between would wait for the COMMIT.
UpdateCommit(s) ==
    /\ pc[s] = "update_commit"
    /\ LET old     == found[s]
           new     == SetAttrs(old, arg[s])
           setName == new.name # old.name
           setTg   == new.telegram # old.telegram
           cur     == get_one_or_none_by_id(rows, old.id)
       IN /\ setName => ~WriteBlocked(s, new.name)
          /\ IF ~(setName \/ setTg)
             THEN /\ result' = [result EXCEPT ![s] = Outcome("ok", new)]
                  /\ UNCHANGED rows
             ELSE IF cur = NoContact
             THEN \* the row was deleted meanwhile: UPDATE matches 0 rows
                  /\ result' = [result EXCEPT ![s] = Outcome("StaleDataError", NoContact)]
                  /\ UNCHANGED rows
             ELSE IF setName /\ UniqueViolation(rows, old.id, new.name)
             THEN \* the store refuses the UPDATE; the error leaves update as it is
                  /\ result' = [result EXCEPT ![s] = Outcome("IntegrityError", NoContact)]
                  /\ UNCHANGED rows
             ELSE /\ rows' = (rows \ {cur}) \cup
                        {[cur EXCEPT !.name     = IF setName THEN new.name ELSE @,
                                     !.telegram = IF setTg THEN new.telegram ELSE @]}
                  /\ result' = [result EXCEPT ![s] = Outcome("ok", new)]
    /\ pc' = [pc EXCEPT ![s] = "done"]
    /\ UNCHANGED <<nextId, calls, arg, found, pending>>
    /\ StoreOnly

\* the request ends; the session is closed and a later request may reuse the slot
Return(s) ==
    /\ pc[s] = "done"
    /\ pc' = [pc EXCEPT ![s] = "idle"]
    /\ arg' = [arg EXCEPT ![s] = NoArg]
    /\ found' = [found EXCEPT ![s] = NoContact]
    /\ result' = [result EXCEPT ![s] = NoResult]
    /\ UNCHANGED <<rows, nextId, calls, pending>>
    /\ StoreOnly

StoreIdle ==
    /\ rows = {}
    /\ nextId = 1
    /\ calls = 0
    /\ pc = [s \in Sessions |-> "idle"]
    /\ arg = [s \in Sessions |-> NoArg]
    /\ found = [s \in Sessions |-> NoContact]
    /\ pending = [s \in Sessions |-> NoPending]
    /\ result = [s \in Sessions |-> NoResult]

SearchIdle ==
    /\ m_contacts = <<>>
    /\ query = <<>>
    /\ name_count = 0
    /\ returned = <<>>
    /\ spc = "off"

WindowIdle ==
    /\ result_list = <<>>
    /\ p1 = 0
    /\ p2 = 0
    /\ text = <<>>
    /\ out = -1
    /\ wpc = "off"

BucketIdle ==
    /\ records = <<>>
    /\ contacts_with_days = <<>>
    /\ bresult = <<>>
    /\ bi = 0
    /\ bpc = "off"

Init == StoreIdle /\ SearchIdle /\ WindowIdle /\ BucketIdle

Next ==
    \E s \in Sessions :
        \/ BeginCreate(s) \/ CreateFlush(s) \/ CreateRollback(s) \/ CreateRaise(s) \/ CreateCommit(s)
        \/ BeginDelete(s) \/ DeleteGet(s) \/ DeleteCommit(s)
        \/ BeginUpdate(s) \/ UpdateCheck(s) \/ UpdateGet(s) \/ UpdateCommit(s)
        \/ Return(s)

Spec == Init /\ [][Next]_vars

-----------------------------------------------------------------------------
(* Helpers on sequences *)

SeqsUpTo(S, n) == UNION {[1..k -> S] : k \in 0..n}
Range(q) == {q[i] : i \in 1..Len(q)}

RECURSIVE Sum(_)
Sum(q) == IF q = <<>> THEN 0 ELSE Head(q) + Sum(Tail(q))

-----------------------------------------------------------------------------
(* LogHelper.convert_logs_to_str: the window of log lines that is sent.      *)
(* A rendered line is given by its length and by whether it is a date header *)
(* (which starts with a newline); a text is given by the lines it joins.     *)

MaxDates       == 2    \* dates in the response
MaxLogsPerDate == 2    \* logs of one date
MaxTextLen     == 4000 \* if len(text) > 4000
HeaderLen      == 16   \* "\n*" + an escaped ISO date + ":*"
LogLens        == {1000, 3990, 4001}   \* lengths of the lines "— n: text"

HeaderLine   == [len |-> HeaderLen, header |-> TRUE]
LogLine(n)   == [len |-> n, header |-> FALSE]

\* for data in logs: result_list.append(header); for log in data['logs']: result_list.append(line)
RECURSIVE Render(_)
Render(logs) ==
    IF logs = <<>> THEN <<>>
    ELSE <<HeaderLine>> \o [i \in 1..Len(Head(logs)) |-> LogLine(Head(logs)[i])]
         \o Render(Tail(logs))

\* result_list[m:]  (m is 0-based)
Slice(lines, m) == SubSeq(lines, m + 1, Len(lines))

\* len('\n'.join(lines))
JoinLen(lines) ==
    IF lines = <<>> THEN 0
    ELSE Sum([i \in 1..Len(lines) |-> lines[i].len]) + (Len(lines) - 1)

WindowOnly == UNCHANGED <<storeVars, searchVars, bucketVars>>

InitWindow ==
    /\ \E logs \in SeqsUpTo(SeqsUpTo(LogLens, MaxLogsPerDate), MaxDates) :
          result_list = Render(logs)
    /\ text = result_list              \* text = '\n'.join(result_list)
    /\ p1 = 0
    /\ p2 = Len(result_list) - 1
    /\ wpc = "search"
    /\ out = -1
    /\ StoreIdle /\ SearchIdle /\ BucketIdle

\* one turn of: while p1 < p2
Probe ==
    /\ wpc = "search"
    /\ p1 < p2
    /\ LET m == (p1 + p2) \div 2
       IN /\ text' = Slice(result_list, m)
          /\ IF JoinLen(text') > MaxTextLen
             THEN p1' = m + 1 /\ UNCHANGED p2
             ELSE p2' = m /\ UNCHANGED p1
    /\ UNCHANGED <<result_list, wpc, out>>
    /\ WindowOnly

\* if len(text) > 0 and text[0] == '\n': text = text[1:]
\* return cls._create_spoiler(text)          (out: the length of what is returned)
Finish ==
    /\ wpc = "search"
    /\ ~(p1 < p2)
    /\ out' = 2 + (JoinLen(text) - IF text # <<>> /\ text[1].header THEN 1 ELSE 0) + 2
    /\ wpc' = "done"
    /\ UNCHANGED <<result_list, p1, p2, text>>
    /\ WindowOnly

NextWindow == Probe \/ Finish

SpecWindow == InitWindow /\ [][NextWindow]_vars

-----------------------------------------------------------------------------
(* StatsHelper.get_days_count_since_last_interaction: the tiered report *)

MaxRecords == 4     \* contacts in the response
DayCounts  == {6, 7, 29, 30}
BNames     == {"A", "B"}

Recent  == "*Recent:*"
Average == "*Average:*"
Long    == "*Long*:"
Titles  == {Recent, Average, Long}

BlankLine       == [text |-> "", name |-> "", day_count |-> 0]
TitleLine(t)    == [text |-> t, name |-> "", day_count |-> 0]
\* f"— {day_count} days: {name} \({telegram}\)"
RecordLine(r)   == [text |-> "record", name |-> r.name, day_count |-> r.day_count]
IsRecordLine(l) == l.text = "record"

\* add_title without the "not in result_set" tests
add_title_unguarded(day_count, res) ==
    IF day_count < 7 THEN res \o <<BlankLine, TitleLine(Recent)>>
    ELSE IF 7 <= day_count /\ day_count < 30 THEN res \o <<BlankLine, TitleLine(Average)>>
    ELSE IF 30 <= day_count THEN res \o <<BlankLine, TitleLine(Long)>>
    ELSE res

\* def add_title(day_count, result)
add_title(day_count, res) ==
    LET result_set == {res[i].text : i \in 1..Len(res)}
    IN IF day_count < 7 /\ Recent \notin result_set
          THEN res \o <<BlankLine, TitleLine(Recent)>>
       ELSE IF 7 <= day_count /\ day_count < 30 /\ Average \notin result_set
          THEN res \o <<BlankLine, TitleLine(Average)>>
       ELSE IF 30 <= day_count /\ Long \notin result_set
          THEN res \o <<BlankLine, TitleLine(Long)>>
       ELSE res

\* one insertion of a stable descending sort: x goes behind every element
\* whose key is not smaller
InsertDesc(sorted, x) ==
    LET k == Cardinality({i \in 1..Len(sorted) : sorted[i].day_count >= x.day_count})
    IN SubSeq(sorted, 1, k) \o <<x>> \o SubSeq(sorted, k + 1, Len(sorted))

\* contacts_with_days.sort(key=lambda x: x[1], reverse=True)
RECURSIVE SortByDaysDesc(_)
SortByDaysDesc(q) ==
    IF q = <<>> THEN <<>>
    ELSE InsertDesc(SortByDaysDesc(SubSeq(q, 1, Len(q) - 1)), q[Len(q)])

BucketOnly == UNCHANGED <<storeVars, searchVars, windowVars>>

InitBucket ==
    /\ records \in SeqsUpTo([name : BNames, day_count : DayCounts], MaxRecords)
    /\ contacts_with_days = <<>>
    /\ bresult = <<>>
    /\ bi = 0
    /\ bpc = "sort"
    /\ StoreIdle /\ SearchIdle /\ WindowIdle

\* the response is copied into contacts_with_days, which is sorted
BucketSort ==
    /\ bpc = "sort"
    /\ contacts_with_days' = SortByDaysDesc(records)
    /\ bpc' = "loop"
    /\ UNCHANGED <<records, bresult, bi>>
    /\ BucketOnly

\* one turn of: for name, day_count in contacts_with_days
BucketRecord ==
    /\ bpc = "loop"
    /\ bi < Len(contacts_with_days)
    /\ LET r == contacts_with_days[bi + 1]
       IN bresult' = Append(add_title(r.day_count, bresult), RecordLine(r))
    /\ bi' = bi + 1
    /\ UNCHANGED <<records, contacts_with_days, bpc>>
    /\ BucketOnly

\* return "\n".join(result)
BucketReturn ==
    /\ bpc = "loop"
    /\ bi = Len(contacts_with_days)
    /\ bpc' = "done"
    /\ UNCHANGED <<records, contacts_with_days, bresult, bi>>
    /\ BucketOnly

NextBucket == BucketSort \/ BucketRecord \/ BucketReturn

SpecBucket == InitBucket /\ [][NextBucket]_vars

-----------------------------------------------------------------------------
(* DAOContact.search.  A string is a sequence of characters.                 *)

MaxStore == 3    \* contacts in the store
MaxCount == 2    \* largest name_count asked for

NamePool  == {<<"A","n","n">>, <<"a","n","n">>, <<"a","n","n","x">>, <<"b","o","b">>}
QueryPool == {<<"a","n","n">>, <<"A","n","x">>, <<"b","o">>}

\* str.lower, character by character
LowerChar(c) == CASE c = "A" -> "a" [] c = "B" -> "b" [] OTHER -> c
lower(str) == [i \in 1..Len(str) |-> LowerChar(str[i])]

\* ord() of the lower-case characters in use
Ord(c) == CASE c = "a" -> 97 [] c = "b" -> 98 [] c = "n" -> 110 [] c = "o" -> 111
            [] c = "x" -> 120 [] OTHER -> 0

\* x > y for Python strings
RECURSIVE StrGreater(_, _)
StrGreater(x, y) ==
    IF x = <<>> THEN FALSE
    ELSE IF y = <<>> THEN TRUE
    ELSE IF Ord(Head(x)) # Ord(Head(y)) THEN Ord(Head(x)) > Ord(Head(y))
    ELSE StrGreater(Tail(x), Tail(y))

\* difflib.SequenceMatcher: the length of the block a[i:i+k] == b[j:j+k] that
\* starts at (i, j) and stays inside a[..ahi), b[..bhi)   (0-based, as in difflib)
RECURSIVE BlockLen(_, _, _, _, _, _)
BlockLen(a, b, i, j, ahi, bhi) ==
    IF i < ahi /\ j < bhi /\ a[i + 1] = b[j + 1]
    THEN 1 + BlockLen(a, b, i + 1, j + 1, ahi, bhi)
    ELSE 0

\* SequenceMatcher.find_longest_match(alo, ahi, blo, bhi): the longest block, of
\* those the one starting earliest in a, of those the one starting earliest in b
find_longest_match(a, b, alo, ahi, blo, bhi) ==
    LET Cands == {<<i, j>> \in (alo..(ahi - 1)) \X (blo..(bhi - 1)) : TRUE}
        K(c)  == BlockLen(a, b, c[1], c[2], ahi, bhi)
        Better(c, d) == \/ K(c) > K(d)
                        \/ K(c) = K(d) /\ c[1] < d[1]
                        \/ K(c) = K(d) /\ c[1] = d[1] /\ c[2] < d[2]
    IN IF Cands = {} THEN <<alo, blo, 0>>
       ELSE LET best == CHOOSE c \in Cands : \A d \in Cands \ {c} : Better(c, d)
            IN IF K(best) = 0 THEN <<alo, blo, 0>> ELSE <<best[1], best[2], K(best)>>

\* SequenceMatcher.get_matching_blocks: the sum of the sizes of the blocks
RECURSIVE Matches(_, _, _, _, _, _)
Matches(a, b, alo, ahi, blo, bhi) ==
    LET blk == find_longest_match(a, b, alo, ahi, blo, bhi)
        i == blk[1]
        j == blk[2]
        k == blk[3]
    IN IF k = 0 THEN 0
       ELSE k + (IF alo < i /\ blo < j THEN Matches(a, b, alo, i, blo, j) ELSE 0)
              + (IF i + k < ahi /\ j + k < bhi THEN Matches(a, b, i + k, ahi, j + k, bhi) ELSE 0)

\* SequenceMatcher.ratio() = 2.0 * matches / (len(a) + len(b)), kept as <<num, den>>
Ratio(a, b) ==
    IF Len(a) + Len(b) = 0 THEN <<1, 1>>
    ELSE <<2 * Matches(a, b, 0, Len(a), 0, Len(b)), Len(a) + Len(b)>>

RatioGreater(r, q) == r[1] * q[2] > q[1] * r[2]
RatioEqual(r, q)   == r[1] * q[2] = q[1] * r[2]
\* ratio >= cutoff, cutoff = 0.6
ClearsCutoff(r)    == 10 * r[1] >= 6 * r[2]

\* difflib.get_close_matches(word, possibilities, n): the names among the n
\* largest (score, x) pairs of the possibilities that clear the cutoff
\* (heapq.nlargest: by score, then by the string)
get_close_matches(word, possibilities, n) ==
    LET Score(x) == Ratio(x, word)      \* s.set_seq2(word); s.set_seq1(x)
        Kept == {i \in 1..Len(possibilities) : ClearsCutoff(Score(possibilities[i]))}
        Above(i, j) ==
            \/ RatioGreater(Score(possibilities[i]), Score(possibilities[j]))
            \/ /\ RatioEqual(Score(possibilities[i]), Score(possibilities[j]))
               /\ StrGreater(possibilities[i], possibilities[j])
    IN {possibilities[j] : j \in {j \in Kept : Cardinality({i \in Kept : Above(i, j)}) < n}}

SearchOnly == UNCHANGED <<storeVars, windowVars, bucketVars>>

\* lists of contacts with pairwise different (case-sensitive) names
Stores == {q \in SeqsUpTo(NamePool, MaxStore) : \A i, j \in 1..Len(q) : q[i] = q[j] => i = j}

InitSearch ==
    /\ m_contacts \in Stores   \* a contact is given by its name
    /\ query \in QueryPool
    /\ name_count \in 1..MaxCount
    /\ returned = <<>>
    /\ spc = "call"
    /\ StoreIdle /\ WindowIdle /\ BucketIdle

\* async def search(self, name, name_count)
Search ==
    /\ spc = "call"
    /\ LET names       == [i \in 1..Len(m_contacts) |-> lower(m_contacts[i])]
           close_names == get_close_matches(lower(query), names, name_count)
           Close(contact) == lower(contact) \in close_names
       IN returned' = SelectSeq(m_contacts, Close)
    /\ spc' = "done"
    /\ UNCHANGED <<m_contacts, query, name_count>>
    /\ SearchOnly

NextSearch == Search

SpecSearch == InitSearch /\ [][NextSearch]_vars

-----------------------------------------------------------------------------
(* Two create calls racing for one name: both calls are issued, on separate *)
(* sessions, before either has flushed; later calls are creates only.       *)

\* the stores a race for name n may start from: n is absent, ids below
\* nextId have been handed out before
RaceStores(n, nid) ==
    {{}} \cup {{[id |-> i, name |-> o, telegram |-> t]} :
                  i \in 1..(nid - 1), o \in Names \ {n}, t \in Telegrams \cup {Null}}

InitRace ==
    /\ \E n \in Names, nid \in 1..MaxIds, a \in Sessions, b \in Sessions :
          /\ a < b
          /\ rows \in RaceStores(n, nid)
          /\ nextId = nid
          /\ pc = [s \in Sessions |-> IF s \in {a, b} THEN "create_flush" ELSE "idle"]
          /\ arg = [s \in Sessions |->
                      IF s \in {a, b}
                      THEN [op |-> "create", id |-> 0, name |-> n, telegram |-> Unset]
                      ELSE NoArg]
    /\ calls = 2
    /\ found = [s \in Sessions |-> NoContact]
    /\ pending = [s \in Sessions |-> NoPending]
    /\ result = [s \in Sessions |-> NoResult]
    /\ SearchIdle /\ WindowIdle /\ BucketIdle

NextCreate ==
    \E s \in Sessions :
        \/ BeginCreate(s) \/ CreateFlush(s) \/ CreateRollback(s) \/ CreateRaise(s)
        \/ CreateCommit(s) \/ Return(s)

SpecRace == InitRace /\ [][NextCreate]_vars

-----------------------------------------------------------------------------
(* Properties of the contact store *)

CommittedNames == {r.name : r \in rows}
CommittedIds   == {r.id : r \in rows}
Moved(s) == pc'[s] # pc[s]

\* C1: no two committed contacts have the same (case-sensitive) name, in every
\* state any interleaving of create, update and delete calls can reach.
C1_UniqueNames == \A r1, r2 \in rows : r1.name = r2.name => r1 = r2

\* two contacts are committed and a third write of a taken name was refused
C1_Witness ==
    /\ Cardinality(rows) = 2
    /\ \E s \in Sessions : result[s].kind \in {"AlreadyExists", "IntegrityError"}

\* C2: a create whose INSERT meets a committed contact of the same name takes the
\* except branch, rolls the transaction back, only then raises AlreadyExists, and
\* none of its steps changes the committed rows.
C2_DuplicateCreate ==
    [][\A s \in Sessions :
          /\ (pc[s] = "create_flush" /\ arg[s].name \in CommittedNames /\ Moved(s))
                => (pc'[s] = "create_except" /\ rows' = rows)
          /\ (pc[s] = "create_except" /\ Moved(s))
                => (pc'[s] = "create_raise" /\ pending'[s] = NoPending /\ rows' = rows)
          /\ (pc[s] = "create_raise" /\ Moved(s))
                => /\ pending[s] = NoPending
                   /\ pc'[s] = "done"
                   /\ result'[s].kind = "AlreadyExists"
                   /\ rows' = rows]_vars

\* a duplicate create has ended with AlreadyExists
C2_Witness ==
    \E s \in Sessions :
        /\ pc[s] = "done" /\ arg[s].op = "create"
        /\ result[s].kind = "AlreadyExists"
        /\ arg[s].name \in CommittedNames
        /\ pending[s] = NoPending

RaceSteps == \E s \in Sessions : CreateFlush(s) \/ CreateRollback(s) \/ CreateRaise(s) \/ CreateCommit(s)

\* C3: of two create calls racing for a name no contact holds, exactly one returns
\* the contact and the other ends with AlreadyExists; until both have ended one of
\* them can take a step.  (calls = 2: no call but the two racing ones was issued.)
C3_RaceOneWinner ==
    calls = 2 =>
        /\ \A s, t \in Sessions :
              (s # t /\ pc[s] = "done" /\ pc[t] = "done")
                 => {result[s].kind, result[t].kind} = {"ok", "AlreadyExists"}
        /\ (\E s \in Sessions : pc[s] \notin {"idle", "done"}) => ENABLED RaceSteps

\* both racing calls have ended
C3_Witness ==
    /\ calls = 2
    /\ \E s, t \in Sessions : s # t /\ pc[s] = "done" /\ pc[t] = "done"
                              /\ result[s].kind = "ok" /\ result[t].kind = "AlreadyExists"

\* C4: update fails with AlreadyExists only when a contact other than the one
\* being updated holds the supplied name.
C4_UpdateConflictOnlyWithOther ==
    [][\A s \in Sessions :
          (pc[s] = "update_check" /\ pc'[s] = "done" /\ result'[s].kind = "AlreadyExists")
             => \E r \in rows : r.name = arg[s].name /\ r.id # arg[s].id]_vars

\* C5: no raw integrity error of the backing store leaves create or update.
C5_NoRawIntegrityError == \A s \in Sessions : result[s].kind # "IntegrityError"

\* C6: delete of an id that is not in the store returns None, raises nothing and
\* changes nothing; and when any delete(id) has returned, id is not in the store,
\* so that a delete(id) that follows it is such a call.
C6_DeleteAbsent ==
    [][\A s \in Sessions :
          /\ (pc[s] = "delete_get" /\ arg[s].id \notin CommittedIds /\ Moved(s))
                => /\ pc'[s] = "done"
                   /\ result'[s] = Outcome("None", NoContact)
                   /\ rows' = rows
                   /\ pending' = pending
          /\ (arg[s].op = "delete" /\ pc[s] # "done" /\ pc'[s] = "done")
                => arg[s].id \notin {r.id : r \in rows'}]_vars

\* a delete of an id whose contact had been created and deleted before returned None
C6_Witness ==
    \E s \in Sessions :
        /\ pc[s] = "done" /\ arg[s].op = "delete"
        /\ result[s] = Outcome("None", NoContact)
        /\ arg[s].id < nextId

-----------------------------------------------------------------------------
(* Properties of the pure components *)

Fits(m) == JoinLen(Slice(result_list, m)) <= MaxTextLen
FitStarts == {m \in 0..(Len(result_list) - 1) : Fits(m)}

\* C7: when some suffix of the lines fits the budget, the text the binary search
\* leaves is the join of the suffix starting at the smallest fitting index, and so
\* is no longer than the budget.
C7_WindowSmallestFit ==
    (wpc = "done" /\ result_list # <<>> /\ FitStarts # {})
        => LET mstar == CHOOSE m \in FitStarts : \A k \in FitStarts : m <= k
           IN text = Slice(result_list, mstar) /\ JoinLen(text) <= MaxTextLen

TierOf(d) == IF d < 7 THEN Recent ELSE IF d < 30 THEN Average ELSE Long
RecordLines == SelectSeq(bresult, IsRecordLine)
Count(q, x) == Cardinality({i \in 1..Len(q) : q[i] = x})

\* C8: the report lists the records in non-increasing day_count order, and each
\* tier's header appears once if a record falls in the tier and not at all
\* otherwise, immediately before the first record of its tier.
C8_Bucketing ==
    bpc = "done" =>
        /\ Len(RecordLines) = Len(records)
        /\ \A r \in Range(records) : Count(RecordLines, RecordLine(r)) = Count(records, r)
        /\ \A i, j \in 1..Len(RecordLines) :
              i < j => RecordLines[i].day_count >= RecordLines[j].day_count
        /\ \A t \in Titles :
              Count(bresult, TitleLine(t)) =
                 IF \E r \in Range(records) : TierOf(r.day_count) = t THEN 1 ELSE 0
        /\ \A i \in 1..Len(bresult) :
              bresult[i].text \in Titles =>
                 /\ i < Len(bresult)
                 /\ IsRecordLine(bresult[i + 1])
                 /\ TierOf(bresult[i + 1].day_count) = bresult[i].text
                 /\ \A j \in 1..(i - 1) :
                       IsRecordLine(bresult[j]) => TierOf(bresult[j].day_count) # bresult[i].text

\* a report with all three tiers, one of them holding two records
C8_Witness ==
    /\ bpc = "done"
    /\ \A t \in Titles : Count(bresult, TitleLine(t)) = 1
    /\ \E i, j \in 1..Len(records) :
          i # j /\ TierOf(records[i].day_count) = TierOf(records[j].day_count)

\* C9: search returns at most name_count contacts, each a contact of the store.
C9_SearchAtMostK ==
    spc = "done" =>
        /\ Len(returned) <= name_count
        /\ Range(returned) \subseteq Range(m_contacts)

Similarity(contact) == Ratio(lower(contact), lower(query))
IndexIn(q, x) == CHOOSE i \in 1..Len(q) : q[i] = x

\* C10: search returns the contacts by descending similarity to the query, ties in
\* the order of the store.
C10_SearchBySimilarity ==
    spc = "done" =>
        \A i, j \in 1..Len(returned) :
            i < j =>
               \/ RatioGreater(Similarity(returned[i]), Similarity(returned[j]))
               \/ /\ RatioEqual(Similarity(returned[i]), Similarity(returned[j]))
                  /\ IndexIn(m_contacts, returned[i]) < IndexIn(m_contacts, returned[j])

====
